---- MODULE Spec2Model ----
(***************************************************************************)
(* Model of tftb/processing/cohen.py: one call of wigner_ville or of       *)
(* pseudo_wigner_ville, from argument defaults to the returned matrix.     *)
(*                                                                         *)
(* Arrays are functions over 0..n-1, so every index of the model is the    *)
(* index the source writes.  An optional argument is a set: {} is None,    *)
(* {v} is the value v.  A complex number is <<re, im>> with integer parts. *)
(* Window weights are integers counting hundredths (1.0 is 100), and the  *)
(* lag matrix tfr holds each entry in units of 1/200, so that the Hamming  *)
(* weights and the factor 0.5 of the Nyquist rows stay exact.              *)
(***************************************************************************)
EXTENDS Integers, FiniteSets, Sequences, TLC

\* ------------------------------------------------------------ bounds
MaxN == 3       \* longest signal
MaxF == 4       \* largest explicit freq_bins
MaxM == 2       \* longest explicit time_samples
MaxL == 3       \* longest explicit window

\* ------------------------------------------------------------ arrays
Shape0(a) == Cardinality(DOMAIN a)
Arange(n) == [i \in 0..(n - 1) |-> i]
Val(opt) == CHOOSE v \in opt : TRUE
None == {}

\* ------------------------------------------------------------ complex
CZero == <<0, 0>>
CAdd(x, y) == <<x[1] + y[1], x[2] + y[2]>>
CMul(x, y) == <<x[1] * y[1] - x[2] * y[2], x[1] * y[2] + x[2] * y[1]>>
CConj(x) == <<x[1], 0 - x[2]>>
CScale(k, x) == <<k * x[1], k * x[2]>>
Min2(a, b) == IF a <= b THEN a ELSE b

\* sample values the signals are built from: one real, one complex, with
\* different moduli and a non-real cross product
SigVals == {<<1, 0>>, <<1, 2>>}

\* explicit windows: all-ones, symmetric triangular and asymmetric ramp
Ones(L) == [n \in 0..(L - 1) |-> 100]
Tri(L) == [n \in 0..(L - 1) |-> 100 * (1 + Min2(n, L - 1 - n))]
Ramp(L) == [n \in 0..(L - 1) |-> 100 * (n + 1)]
Windows == UNION {{Ones(L), Tri(L), Ramp(L)} : L \in 1..MaxL}

Signals == UNION {[0..(n - 1) -> SigVals] : n \in 1..MaxN}
TimeSampleSeqs(N) == UNION {[0..(m - 1) -> 0..(N - 1)] : m \in 1..MaxM}

\* ------------------------------------------------------------ numpy helpers
\* np.round(n / 2.0): round half to even
RoundHalf(n) ==
    IF n % 2 = 0 THEN n \div 2
    ELSE IF (n \div 2) % 2 = 0 THEN n \div 2 ELSE (n \div 2) + 1

\* np.remainder(a, b) for b > 0: the result has the sign of the divisor
Remainder(a, b) == a % b

\* tftb.utils.nextpow2: the least m with 2^m >= n
RECURSIVE NextPow2From(_, _)
NextPow2From(n, m) == IF 2 ^ m >= n THEN m ELSE NextPow2From(n, m + 1)
nextpow2(n) == NextPow2From(n, 0)

\* scipy.signal.hamming(L): 0.54 - 0.46 cos(2 pi n / (L - 1)), and [1.] for
\* L = 1, in hundredths; these are the lengths whose weights are rational
hamming(L) ==
    CASE L = 1 -> [n \in 0..0 |-> 100]
      [] L = 3 -> [n \in 0..2 |-> IF n = 1 THEN 100 ELSE 8]
      [] L = 5 -> [n \in 0..4 |-> IF n = 2 THEN 100
                                  ELSE IF n \in {1, 3} THEN 54 ELSE 8]
      [] L = 7 -> [n \in 0..6 |-> IF n = 3 THEN 100
                                  ELSE IF n \in {2, 4} THEN 77
                                  ELSE IF n \in {1, 5} THEN 31 ELSE 8]

\* the default window of pseudo_wigner_ville
DefaultWinLength(N) == (N \div 4) + 1 - ((N \div 4) % 2)

\* a length test that accepts every window
EvenLengthNever(w) == FALSE

\* line 49: window.shape[0] % 2 == 0
EvenLength(w) == Shape0(w) % 2 = 0

\* fn            the function called (line 19 or line 73)
\* args          the optional arguments as the caller passed them
\* floatIndex    whether numpy accepts a float as an index (before 1.12) or
\*               raises IndexError (lines 65-66 index window with lh + tau)
\* pc            position in the body; err, the exception raised, if any
\* signal, time_samples, freq_bins, window, tfr, lh, icol: the locals
\* warned        number of warnings.warn calls (lines 42, 93)
\* out           the returned matrix
\* sigReads, winReads: the indices signal[...] and window[...] were read at
\* lags          per column, the pairs <<tau, row>> of lines 59-60 / 101-102
\* nyq           the columns where the condition of line 64 / 105 held
VARIABLES fn, args, floatIndex, pc, signal, time_samples, freq_bins, window,
          warned, err, tfr, lh, icol, out, sigReads, winReads, lags, nyq

vars == <<fn, args, floatIndex, pc, signal, time_samples, freq_bins, window,
          warned, err, tfr, lh, icol, out, sigReads, winReads, lags, nyq>>

N == Shape0(signal)
M == Shape0(Val(time_samples))
F == Val(freq_bins)
W == Val(window)
Unallocated == <<>>

\* ------------------------------------------------------------ the call
Init ==
    /\ fn \in {"wigner_ville", "pseudo_wigner_ville"}
    /\ signal \in Signals
    /\ \E ts \in {None} \cup {{t} : t \in TimeSampleSeqs(Shape0(signal))} :
       \E fb \in {None} \cup {{f} : f \in 1..MaxF} :
       \E w \in {None} \cup (IF fn = "pseudo_wigner_ville"
                               THEN {{x} : x \in Windows} ELSE {}) :
          /\ args = [time_samples |-> ts, freq_bins |-> fb, window |-> w]
          /\ time_samples = ts
          /\ freq_bins = fb
          /\ window = w
    /\ floatIndex \in BOOLEAN
    /\ pc = "defaults"
    /\ warned = 0
    /\ err = "none"
    /\ tfr = Unallocated
    /\ out = Unallocated
    /\ lh = 0
    /\ icol = 0
    /\ sigReads = {}
    /\ winReads = {}
    /\ lags = <<>>
    /\ nyq = {}

\* lines 34-38 and 85-89: time_samples and freq_bins default to the signal
Defaults ==
    /\ pc = "defaults"
    /\ time_samples' = IF time_samples = None THEN {Arange(N)} ELSE time_samples
    /\ freq_bins' = IF freq_bins = None THEN {N} ELSE freq_bins
    /\ pc' = "pow2"
    /\ UNCHANGED <<fn, args, floatIndex, signal, window, warned, err, tfr, lh,
                   icol, out, sigReads, winReads, lags, nyq>>

\* lines 40-42 and 91-93: the advisory
NotPowerOfTwo(f) == 2 ^ nextpow2(f) # f

Pow2Check ==
    /\ pc = "pow2"
    /\ warned' = IF NotPowerOfTwo(F) THEN warned + 1 ELSE warned
    /\ pc' = IF fn = "pseudo_wigner_ville" THEN "window" ELSE "alloc"
    /\ UNCHANGED <<fn, args, floatIndex, signal, time_samples, freq_bins, window,
                   err, tfr, lh, icol, out, sigReads, winReads, lags, nyq>>

\* lines 44-50: default window, or rejection of an even-length window
WindowSetup ==
    /\ pc = "window"
    /\ IF window = None
         THEN /\ window' = {hamming(DefaultWinLength(N))}
              /\ pc' = "alloc"
              /\ err' = err
         ELSE IF EvenLength(W)
         THEN /\ err' = "ValueError"
              /\ pc' = "raised"
              /\ window' = window
         ELSE /\ pc' = "alloc"
              /\ UNCHANGED <<window, err>>
    /\ UNCHANGED <<fn, args, floatIndex, signal, time_samples, freq_bins, warned,
                   tfr, lh, icol, out, sigReads, winReads, lags, nyq>>

\* lines 52-53 and 95: the zero matrix, and the window half length
Zeros(f, m) == [r \in 0..(f - 1) |-> [c \in 0..(m - 1) |-> CZero]]

Alloc ==
    /\ pc = "alloc"
    /\ tfr' = Zeros(F, M)
    /\ lh' = IF fn = "pseudo_wigner_ville" THEN (Shape0(W) - 1) \div 2 ELSE lh
    /\ lags' = [c \in 0..(M - 1) |-> {}]
    /\ icol' = 0
    /\ pc' = "loop"
    /\ UNCHANGED <<fn, args, floatIndex, signal, time_samples, freq_bins, window,
                   warned, err, out, sigReads, winReads, nyq>>

\* ------------------------------------------------------------ assembly
\* signal[i]: a negative index counts from the end of the array
Sig(i) == signal[IF i < 0 THEN N + i ELSE i]

Min3(a, b, c) == Min2(a, Min2(b, c))
Row(f, tau) == Remainder(f + tau, f)

\* line 103: signal[ti + tau] * conj(signal[ti - tau])
WVProduct(ti, tau) == CScale(200, CMul(Sig(ti + tau), CConj(Sig(ti - tau))))

\* lines 61-62: window[lh + tau] * signal[ti + tau - 1] * conj(signal[ti - tau - 1])
PWVProduct(ti, tau) ==
    CScale(2 * W[lh + tau], CMul(Sig(ti + tau - 1), CConj(Sig(ti - tau - 1))))

\* lines 99-100
WVTauMax(ti) == Min3(ti, N - ti - 1, RoundHalf(F) - 1)

\* lines 56-58
PWVTauMax(ti) == Min2(Min3(ti, N - ti - 1, RoundHalf(N)), lh)

\* lines 101-103: tfr[indices, icol] = ..., one row per lag in ascending order of
\* the lag; a row that two lags share keeps the value of the later lag
RECURSIVE WVAssign(_, _, _, _, _)
WVAssign(t, c, ti, tau, taumax) ==
    IF tau > taumax THEN t
    ELSE WVAssign([t EXCEPT ![Row(F, tau)][c] = WVProduct(ti, tau)],
                  c, ti, tau + 1, taumax)

\* lines 59-62
RECURSIVE PWVAssign(_, _, _, _, _)
PWVAssign(t, c, ti, tau, taumax) ==
    IF tau > taumax THEN t
    ELSE PWVAssign([t EXCEPT ![Row(F, tau)][c] = PWVProduct(ti, tau)],
                   c, ti, tau + 1, taumax)

LagRows(taumax) == {<<tau, Row(F, tau)>> : tau \in (0 - taumax)..taumax}

\* line 105
WVNyquistTaken(ti, tau) == ti <= N - tau /\ ti >= tau + 1

\* line 64
PWVNyquistTaken(ti, tau) == ti <= N - tau /\ ti >= tau + 1 /\ tau <= lh

\* lines 65-67: 0.5 * (w[lh + tau] * s[ti + tau - 1] * conj(s[ti - tau - 1])
\*                     + w[lh - tau] * s[ti - tau - 1] * conj(s[ti + tau - 1]))
PWVNyquist(ti, tau) ==
    CAdd(CScale(W[lh + tau], CMul(Sig(ti + tau - 1), CConj(Sig(ti - tau - 1)))),
         CScale(W[lh - tau], CMul(Sig(ti - tau - 1), CConj(Sig(ti + tau - 1)))))

\* lines 97-107: one column of wigner_ville.  The Nyquist statement indexes the
\* one-dimensional signal with two indices, signal[ti + tau, 0], which numpy
\* refuses with IndexError before any sample is read.
WVColumn ==
    /\ pc = "loop"
    /\ fn = "wigner_ville"
    /\ icol < M
    /\ LET ti == Val(time_samples)[icol]
           taumax == WVTauMax(ti)
           tau == RoundHalf(F)
       IN  /\ tfr' = WVAssign(tfr, icol, ti, 0 - taumax, taumax)
           /\ lags' = [lags EXCEPT ![icol] = LagRows(taumax)]
           /\ sigReads' = sigReads \cup
                 UNION {{ti + t, ti - t} : t \in (0 - taumax)..taumax}
           /\ IF WVNyquistTaken(ti, tau)
                THEN /\ nyq' = nyq \cup {icol}
                     /\ err' = "IndexError"
                     /\ pc' = "raised"
                     /\ icol' = icol
                ELSE /\ icol' = icol + 1
                     /\ UNCHANGED <<nyq, err, pc>>
    /\ UNCHANGED <<fn, args, floatIndex, signal, time_samples, freq_bins, window,
                   warned, lh, out, winReads>>

\* lines 54-67: one column of pseudo_wigner_ville.  In the Nyquist statement tau
\* is a float (np.round), and window[lh + tau] indexes with a float: numpy
\* before 1.12 truncates it (floatIndex), later numpy raises IndexError.
PWVColumn ==
    /\ pc = "loop"
    /\ fn = "pseudo_wigner_ville"
    /\ icol < M
    /\ LET ti == Val(time_samples)[icol]
           taumax == PWVTauMax(ti)
           tau == RoundHalf(F)
           main == PWVAssign(tfr, icol, ti, 0 - taumax, taumax)
           mainSig == UNION {{ti + t - 1, ti - t - 1} : t \in (0 - taumax)..taumax}
           mainWin == {lh + t : t \in (0 - taumax)..taumax}
       IN  /\ lags' = [lags EXCEPT ![icol] = LagRows(taumax)]
           /\ IF ~PWVNyquistTaken(ti, tau)
                THEN /\ tfr' = main
                     /\ sigReads' = sigReads \cup mainSig
                     /\ winReads' = winReads \cup mainWin
                     /\ icol' = icol + 1
                     /\ UNCHANGED <<nyq, err, pc>>
                ELSE IF floatIndex
                THEN /\ tfr' = [main EXCEPT ![tau][icol] = PWVNyquist(ti, tau)]
                     /\ sigReads' = sigReads \cup mainSig
                                      \cup {ti + tau - 1, ti - tau - 1}
                     /\ winReads' = winReads \cup mainWin \cup {lh + tau, lh - tau}
                     /\ nyq' = nyq \cup {icol}
                     /\ icol' = icol + 1
                     /\ UNCHANGED <<err, pc>>
                ELSE /\ tfr' = main
                     /\ sigReads' = sigReads \cup mainSig
                     /\ winReads' = winReads \cup mainWin
                     /\ nyq' = nyq \cup {icol}
                     /\ err' = "IndexError"
                     /\ pc' = "raised"
                     /\ icol' = icol
    /\ UNCHANGED <<fn, args, floatIndex, signal, time_samples, freq_bins, window,
                   warned, lh, out>>

\* ------------------------------------------------------------ transform
RECURSIVE CSum(_, _)
CSum(x, S) ==
    IF S = {} THEN CZero
    ELSE LET j == CHOOSE j \in S : TRUE IN CAdd(x[j], CSum(x, S \ {j}))

\* The discrete Fourier transform of x, a function over 0..n-1: entry k is
\* sum_j x[j] * w^(k * j) with w = exp(-2 pi i / n), held as the coefficient
\* of each power w^e, e in 0..n-1
DFT(x) ==
    LET n == Shape0(x)
    IN  [k \in 0..(n - 1) |->
           [e \in 0..(n - 1) |-> CSum(x, {j \in 0..(n - 1) : (k * j) % n = e})]]

\* np.real of sum_e (a_e + i b_e) w^e is sum_e a_e cos(2 pi e / n)
\* + b_e sin(2 pi e / n): b_e drops out where the sine is zero
Real(v) ==
    LET n == Shape0(v)
    IN  [e \in 0..(n - 1) |-> IF e = 0 \/ 2 * e = n THEN <<v[e][1], 0>> ELSE v[e]]

\* np.fft.fft(t, axis=0): one transform per column, along the rows
FFTAxis0(t, f, m) ==
    [k \in 0..(f - 1) |-> [c \in 0..(m - 1) |->
        DFT([r \in 0..(f - 1) |-> t[r][c]])[k]]]

\* np.fft.fft(t): the default axis is the last one, one transform per row
FFTLastAxis(t, f, m) ==
    [r \in 0..(f - 1) |-> [k \in 0..(m - 1) |-> DFT(t[r])[k]]]

RealMatrix(t, f, m) == [r \in 0..(f - 1) |-> [c \in 0..(m - 1) |-> Real(t[r][c])]]

\* lines 109-111
WVTransform ==
    /\ pc = "loop"
    /\ fn = "wigner_ville"
    /\ icol = M
    /\ out' = RealMatrix(FFTAxis0(tfr, F, M), F, M)
    /\ pc' = "done"
    /\ UNCHANGED <<fn, args, floatIndex, signal, time_samples, freq_bins, window,
                   warned, err, tfr, lh, icol, sigReads, winReads, lags, nyq>>

\* lines 69-70
PWVTransform ==
    /\ pc = "loop"
    /\ fn = "pseudo_wigner_ville"
    /\ icol = M
    /\ out' = RealMatrix(FFTLastAxis(tfr, F, M), F, M)
    /\ pc' = "done"
    /\ UNCHANGED <<fn, args, floatIndex, signal, time_samples, freq_bins, window,
                   warned, err, tfr, lh, icol, sigReads, winReads, lags, nyq>>

Next ==
    \/ Defaults
    \/ Pow2Check
    \/ WindowSetup
    \/ Alloc
    \/ WVColumn
    \/ PWVColumn
    \/ WVTransform
    \/ PWVTransform

Spec == Init /\ [][Next]_vars

\* ------------------------------------------------------------ properties
Cols == IF pc \in {"loop", "done", "raised"} /\ tfr # Unallocated
          THEN 0..(M - 1) ELSE {}
\* the columns whose assembly (main lag loop and Nyquist statement) is over
Assembled == {c \in Cols : c < icol}
\* the columns whose main lag loop has run
Looped == {c \in Cols : c < icol \/ (c = icol /\ pc = "raised")}
Ti(c) == Val(time_samples)[c]
TauN == RoundHalf(F)
IsPowerOfTwo(f) == \E m \in 0..f : 2 ^ m = f
Symmetric(w) == \A n \in DOMAIN w : w[n] = w[Shape0(w) - 1 - n]
Column(t, c) == [r \in DOMAIN t |-> t[r][c]]
ExplicitEvenWindow ==
    /\ fn = "pseudo_wigner_ville"
    /\ args.window # None
    /\ Shape0(Val(args.window)) % 2 = 0

\* C1: pseudo_wigner_ville with an explicit window of even length ends in
\* ValueError, and until then nothing is computed: the lag matrix is never
\* allocated, no signal or window sample is read and no transform is taken;
\* a window of odd length (or the default window) is never rejected.
C1_EvenWindowRejected ==
    /\ ExplicitEvenWindow =>
          /\ pc \in {"defaults", "pow2", "window", "raised"}
          /\ pc = "raised" => err = "ValueError"
          /\ tfr = Unallocated
          /\ out = Unallocated
          /\ sigReads = {}
          /\ winReads = {}
    /\ err = "ValueError" => ExplicitEvenWindow

C1_Witness ==
    /\ ExplicitEvenWindow
    /\ pc = "raised"
    /\ err = "ValueError"
    /\ Shape0(Val(args.window)) >= 2

\* C2: in an assembled column for ti = 0 or ti = N - 1 only row 0 and the
\* Nyquist row round(F/2) are populated, and row 0 holds |signal[ti]|^2, times
\* the centre weight window[lh] in pseudo_wigner_ville.  (Stated for
\* round(F/2) > 0, where row 0 is not itself the Nyquist row.)
C2_BoundaryColumn ==
    \A c \in Assembled :
       (Ti(c) \in {0, N - 1} /\ TauN > 0) =>
          /\ \A r \in 0..(F - 1) : r \notin {0, TauN} => tfr[r][c] = CZero
          /\ tfr[0][c] =
                CScale(IF fn = "wigner_ville" THEN 200 ELSE 2 * W[lh],
                       CMul(signal[Ti(c)], CConj(signal[Ti(c)])))

\* C3: a column of pseudo_wigner_ville assembled with the all-ones window of
\* length 2 * min(ti, N - ti - 1) + 1 holds the entries wigner_ville assembles
\* for the same signal, time index and freq_bins (where wigner_ville assembles
\* the column at all).
C3_OnesWindowIsWV ==
    \A c \in Assembled :
       (/\ fn = "pseudo_wigner_ville"
        /\ W = Ones(2 * Min2(Ti(c), N - Ti(c) - 1) + 1)
        /\ ~WVNyquistTaken(Ti(c), TauN)) =>
          Column(tfr, c) =
             Column(WVAssign(Zeros(F, M), c, Ti(c),
                             0 - WVTauMax(Ti(c)), WVTauMax(Ti(c))), c)

\* C4: every assembled column is conjugate-symmetric in the lag index: row
\* (F - k) mod F is the conjugate of row k, for wigner_ville and for
\* pseudo_wigner_ville with a window symmetric about its centre.
C4_ConjugateSymmetric ==
    \A c \in Assembled :
       (fn = "wigner_ville" \/ Symmetric(W)) =>
          \A k \in 0..(F - 1) : tfr[(F - k) % F][c] = CConj(tfr[k][c])

\* C5: one advisory when freq_bins is not a power of two and none when it is;
\* the call is never aborted by anything but the even-window rejection, and
\* what it returns is a freq_bins x len(time_samples) matrix.
C5_AdvisoryAndShape ==
    /\ pc \in {"defaults", "pow2"} => warned = 0
    /\ pc \notin {"defaults", "pow2"} =>
          warned = IF IsPowerOfTwo(F) THEN 0 ELSE 1
    /\ pc = "raised" => err = "ValueError"
    /\ pc = "done" =>
          /\ DOMAIN out = 0..(F - 1)
          /\ \A r \in DOMAIN out : DOMAIN out[r] = 0..(M - 1)

\* C6: the returned column c is the real part of the length-F transform of
\* column c of the lag matrix, in both functions.
C6_TransformPerColumn ==
    pc = "done" =>
       \A c \in 0..(M - 1) : \A k \in 0..(F - 1) :
          out[k][c] = Real(DFT(Column(tfr, c))[k])

\* C7: every signal index read during assembly lies in 0..N-1 and every
\* window index read lies in 0..L-1.
C7_ReadsInRange ==
    /\ sigReads \subseteq 0..(N - 1)
    /\ winReads # {} => winReads \subseteq 0..(Shape0(W) - 1)

\* C8: in every column where the Nyquist branch is taken, row round(F/2) holds
\* 0.5 * s[ti + tauN] * conj(s[ti - tauN]) + 0.5 * s[ti - tauN] * conj(s[ti + tauN]),
\* in pseudo_wigner_ville with the window weights and the -1 sample offset.
C8_NyquistAverage ==
    \A c \in nyq :
       /\ pc # "raised"
       /\ IF fn = "wigner_ville"
            THEN /\ Ti(c) + TauN \in 0..(N - 1)
                 /\ tfr[TauN][c] =
                       CScale(100, CAdd(CMul(Sig(Ti(c) + TauN), CConj(Sig(Ti(c) - TauN))),
                                        CMul(Sig(Ti(c) - TauN), CConj(Sig(Ti(c) + TauN)))))
            ELSE tfr[TauN][c] =
                    CAdd(CScale(W[lh + TauN], CMul(Sig(Ti(c) + TauN - 1),
                                                   CConj(Sig(Ti(c) - TauN - 1)))),
                         CScale(W[lh - TauN], CMul(Sig(Ti(c) - TauN - 1),
                                                   CConj(Sig(Ti(c) + TauN - 1)))))

\* C9: the main lag loop of a column ranges over exactly the lags
\* -taumax..taumax with taumax = min(ti, N - ti - 1, round(F/2)), and also lh
\* in pseudo_wigner_ville.
C9_LagRange ==
    \A c \in Looped :
       LET t3 == Min3(Ti(c), N - Ti(c) - 1, RoundHalf(F))
           taumax == IF fn = "pseudo_wigner_ville" THEN Min2(t3, lh) ELSE t3
       IN  {p[1] : p \in lags[c]} = (0 - taumax)..taumax

\* C10: the main lag loop stores each lag in a row of 0..F-1, and distinct
\* lags of one column in distinct rows.
C10_DistinctRows ==
    \A c \in Looped : \A p \in lags[c] :
       /\ p[2] \in 0..(F - 1)
       /\ \A q \in lags[c] : p[1] # q[1] => p[2] # q[2]

====
